---- MODULE Spec2Model ----
(***************************************************************************)
(* Model of lib/ansible/modules/cloud/amazon/aws_ssm_parameter_store.py.   *)
(*                                                                         *)
(* One invocation of main() is split at its single blocking point, the     *)
(* remote call: Start is main() up to the moment the request leaves the    *)
(* client, the Remote* actions are the store answering that request and    *)
(* the handler turning the answer into the module's outcome.               *)
(***************************************************************************)
EXTENDS Integers, FiniteSets, Sequences, TLC

\* ---------------------------------------------------------------- bounds
NumCallers == 2

Callers == 1..NumCallers

\* ------------------------------------------------------------ input sets
None == "<None>"

Names        == {"Hello", "Bye"}
Values       == {"World", "Moon"}
Descriptions == {"", "demo"}
States       == {"present", "absent"}
StringTypes  == {"String", "StringList", "SecureString"}
KeyIds       == {"alias/demo"}

\* A field of the task that may be left out: absent, or k bound to one of S.
Opt(k, S) == {<< >>} \cup {k :> v : v \in S}

\* The descriptors the host accepts (name required, choices enforced).
Descriptors ==
    { [name |-> n, value |-> v, state |-> s, string_type |-> t,
       decryption |-> dec, overwrite |-> o] @@ ds @@ k :
        n \in Names, v \in Values, s \in States, t \in StringTypes,
        dec \in BOOLEAN, o \in BOOLEAN,
        ds \in Opt("description", Descriptions), k \in Opt("key_id", KeyIds) }

\* Tasks that leave everything optional to the defaults of the argument spec.
DefaultedDescriptors ==
    { [name |-> n, value |-> v] @@ t : n \in Names, v \in Values,
        t \in Opt("string_type", {"SecureString"}) }
    \cup { [name |-> n, state |-> "absent"] : n \in Names }

AllDescriptors == Descriptors \cup DefaultedDescriptors

\* ------------------------------------------------- setup_module_object()
Get(d, k, default) == IF k \in DOMAIN d THEN d[k] ELSE default

setup_module_object(d) ==
    [ name        |-> d.name,
      description |-> Get(d, "description", None),
      value       |-> Get(d, "value", None),
      state       |-> Get(d, "state", "present"),
      string_type |-> Get(d, "string_type", "String"),
      decryption  |-> Get(d, "decryption", TRUE),
      key_id      |-> Get(d, "key_id", "alias/aws/ssm"),
      overwrite   |-> Get(d, "overwrite", TRUE) ]

\* Python truth value of an optional string.
Truthy(s) == s # None /\ s # ""

\* -------------------------------------------- create_update_parameter()
\* Faulty variants of the request builder, used to test the properties.
put_args_variant(params, value, withDescription, withKeyId, overwrite) ==
    LET args == [ Name      |-> params.name,
                  Value     |-> value,
                  Type      |-> params.string_type,
                  Overwrite |-> overwrite ]
        described == IF withDescription
                     THEN ("Description" :> params.description) @@ args
                     ELSE args
    IN  IF withKeyId THEN ("KeyId" :> params.key_id) @@ described ELSE described

\* Value taken from the wrong parameter.
put_parameter_args_value_from_name(params) ==
    put_args_variant(params, params.name, Truthy(params.description),
                     params.string_type = "SecureString", params.overwrite)

\* Description tested with "is not None" instead of truthiness.
put_parameter_args_description_not_none(params) ==
    put_args_variant(params, params.value, params.description # None,
                     params.string_type = "SecureString", params.overwrite)

\* KeyId attached whatever the type.
put_parameter_args_keyid_always(params) ==
    put_args_variant(params, params.value, Truthy(params.description),
                     TRUE, params.overwrite)

\* Overwrite hard-wired to True.
put_parameter_args_overwrite_true(params) ==
    put_args_variant(params, params.value, Truthy(params.description),
                     params.string_type = "SecureString", TRUE)

\* decryption passed on to the store.
put_parameter_args_with_decryption(params) ==
    ("WithDecryption" :> params.decryption) @@
    put_args_variant(params, params.value, Truthy(params.description),
                     params.string_type = "SecureString", params.overwrite)

\* Lines 125-136: the keyword arguments of client.put_parameter.
put_parameter_args(params) ==
    LET args == [ Name      |-> params.name,
                  Value     |-> params.value,
                  Type      |-> params.string_type,
                  Overwrite |-> params.overwrite ]
        withDescription ==
            IF Truthy(params.description)
            THEN ("Description" :> params.description) @@ args
            ELSE args
    IN  IF params.string_type = "SecureString"
        THEN ("KeyId" :> params.key_id) @@ withDescription
        ELSE withDescription

\* ------------------------------------------------------ delete_parameter()
\* Faulty variant: the value is sent along with the name.
delete_parameter_args_with_value(params) ==
    [ Name |-> params.name, Value |-> params.value ]

\* Lines 151-153: the keyword arguments of client.delete_parameter.
delete_parameter_args(params) == [ Name |-> params.name ]

\* ------------------------------------------------------- host framework
\* AnsibleAWSModule.exit_json: the normal result handed to the host.
exit_json(changed, response) ==
    [ kind |-> "exit_json", changed |-> changed, response |-> response ]

\* AnsibleAWSModule.fail_json_aws: ends the process with a failure object.
fail_json_aws(e, msg) ==
    [ kind |-> "fail_json_aws", exception |-> e, msg |-> msg ]

\* An exception no handler catches leaves the process as a traceback.
Uncaught(e) == [ kind |-> "traceback", exception |-> e ]

Return(changed, response) ==
    [ kind |-> "return", changed |-> changed, response |-> response ]

\* ---------------------------------------------------- replies of the store
EmptyResponse == {}

Ok(payload)       == [ kind |-> "ok", payload |-> payload, fault |-> FALSE ]
ClientError(code, fault) ==
    [ kind |-> "ClientError", error |-> [Code |-> code], fault |-> fault ]
OtherException(class) ==
    [ kind |-> "Exception", error |-> [Class |-> class], fault |-> TRUE ]
NoReply           == [ kind |-> "none", fault |-> FALSE ]

\* Faulty variant: the failure is reported but the function goes on to return.
create_update_parameter_swallow(reply) ==
    CASE reply.kind = "ok"          -> Return(TRUE, reply.payload)
      [] reply.kind = "ClientError" -> Return(FALSE, EmptyResponse)
      [] OTHER                      -> Uncaught(reply.error)

\* Faulty variant: changed is not set after the call.
create_update_parameter_unchanged(reply) ==
    CASE reply.kind = "ok"          -> Return(FALSE, reply.payload)
      [] reply.kind = "ClientError" -> fail_json_aws(reply.error, "setting parameter")
      [] OTHER                      -> Uncaught(reply.error)

\* try: client.put_parameter(**args) ... except ClientError
create_update_parameter(reply) ==
    CASE reply.kind = "ok"          -> Return(TRUE, reply.payload)
      [] reply.kind = "ClientError" -> fail_json_aws(reply.error, "setting parameter")
      [] OTHER                      -> Uncaught(reply.error)

\* Faulty variant: not-found is not told apart from the other errors.
delete_parameter_no_not_found(reply) ==
    CASE reply.kind = "ok"          -> Return(TRUE, reply.payload)
      [] reply.kind = "ClientError" -> fail_json_aws(reply.error, "deleting parameter")
      [] OTHER                      -> Uncaught(reply.error)

\* try: client.delete_parameter(Name=...) ... except ClientError
delete_parameter(reply) ==
    CASE reply.kind = "ok"          -> Return(TRUE, reply.payload)
      [] reply.kind = "ClientError" ->
            IF reply.error.Code = "ParameterNotFound"
            THEN Return(FALSE, EmptyResponse)
            ELSE fail_json_aws(reply.error, "deleting parameter")
      [] OTHER                      -> Uncaught(reply.error)

\* Faulty variant: the two handlers are swapped in the dispatch table.
main_request_swapped(d) ==
    LET params == setup_module_object(d)
    IN  IF params.state = "absent"
        THEN [ op |-> "put_parameter",    args |-> put_parameter_args(params) ]
        ELSE [ op |-> "delete_parameter", args |-> delete_parameter_args(params) ]

\* main(): the request the handler chosen by state sends to the client.
main_request(d) ==
    LET params == setup_module_object(d)
    IN  IF params.state = "present"
        THEN [ op |-> "put_parameter",    args |-> put_parameter_args(params) ]
        ELSE [ op |-> "delete_parameter", args |-> delete_parameter_args(params) ]

\* main(): the outcome of the invocation once the client call has ended.
main(d, reply) ==
    LET params == setup_module_object(d)
        r == IF params.state = "present"
             THEN create_update_parameter(reply)
             ELSE delete_parameter(reply)
    IN  IF r.kind = "return" THEN exit_json(r.changed, r.response) ELSE r

\* ----------------------------------------------------------- remote store
Absent == << >>

\* What the store keeps of a put request.
Stored(args) == [ k \in DOMAIN args \ {"Name", "Overwrite"} |-> args[k] ]

FaultCodes == {"AccessDeniedException", "ThrottlingException"}

PutPayload    == { <<"ResponseMetadata", "PutParameter">> }
DeletePayload == { <<"ResponseMetadata", "DeleteParameter">> }

\* put(name, value, type, overwrite, [description], [key_id])
remote_put(st, args) ==
    IF st[args.Name] # Absent /\ ~args.Overwrite
    THEN [ store |-> st, reply |-> ClientError("ParameterAlreadyExists", FALSE) ]
    ELSE [ store |-> [st EXCEPT ![args.Name] = Stored(args)],
           reply |-> Ok(PutPayload) ]

\* delete(name)
remote_delete(st, args) ==
    IF st[args.Name] = Absent
    THEN [ store |-> st, reply |-> ClientError("ParameterNotFound", FALSE) ]
    ELSE [ store |-> [st EXCEPT ![args.Name] = Absent],
           reply |-> Ok(DeletePayload) ]

remote(st, req) ==
    IF req.op = "put_parameter" THEN remote_put(st, req.args)
                                ELSE remote_delete(st, req.args)

\* ------------------------------------------------------------------ state
VARIABLES
    store,          \* remote store: name -> stored parameter or Absent
    pc,             \* per caller: "idle", "calling" (request in flight), "done"
    descriptor,     \* per caller: the task of the current invocation
    request,        \* per caller: the request handed to the client
    reply,          \* per caller: what the client call ended with
    result,         \* per caller: what the host receives
    calls,          \* per caller: remote calls of the current invocation
    again,          \* per caller: the invocation repeats the previous task
    first,          \* per caller: how the previous run ended, and the store then
    lastServedBy    \* per name: caller whose request the store took last

vars == << store, pc, descriptor, request, reply, result, calls, again,
           first, lastServedBy >>

NoRequest == [ op |-> "none" ]
NoResult  == [ kind |-> "none" ]
NoCalls   == [ put_parameter |-> 0, delete_parameter |-> 0 ]
NoFirst   == [ kind |-> "none" ]

\* A parameter somebody created earlier.
Seed == [ Value |-> "World", Type |-> "String" ]

Init ==
    /\ store \in [Names -> {Absent, Seed}]
    /\ pc = [c \in Callers |-> "idle"]
    /\ descriptor = [c \in Callers |-> << >>]
    /\ request = [c \in Callers |-> NoRequest]
    /\ reply = [c \in Callers |-> NoReply]
    /\ result = [c \in Callers |-> NoResult]
    /\ calls = [c \in Callers |-> NoCalls]
    /\ again = [c \in Callers |-> FALSE]
    /\ first = [c \in Callers |-> NoFirst]
    /\ lastServedBy = [n \in Names |-> 0]

\* main() from entry until the request has left through the client.
Start(c, d) ==
    /\ pc[c] \in {"idle", "done"}
    /\ pc' = [pc EXCEPT ![c] = "calling"]
    /\ descriptor' = [descriptor EXCEPT ![c] = d]
    /\ request' = [request EXCEPT ![c] = main_request(d)]
    /\ reply' = [reply EXCEPT ![c] = NoReply]
    /\ result' = [result EXCEPT ![c] = NoResult]
    /\ calls' = [calls EXCEPT ![c] = NoCalls]
    /\ UNCHANGED << store, lastServedBy >>

\* The host runs a task for the first time.
Invoke(c, d) ==
    /\ pc[c] = "idle"
    /\ Start(c, d)
    /\ UNCHANGED << again, first >>

\* The host runs the task it has just run once more.
Rerun(c) ==
    /\ pc[c] = "done"
    /\ Start(c, descriptor[c])
    /\ again' = [again EXCEPT ![c] = TRUE]
    /\ first' = [first EXCEPT ![c] =
                    [ kind |-> "ran", result |-> result[c],
                      fault |-> reply[c].fault, store |-> store ]]

\* The host runs any task, whatever it ran before.
Run(c, d) ==
    /\ Start(c, d)
    /\ again' = [again EXCEPT ![c] = FALSE]
    /\ first' = [first EXCEPT ![c] = NoFirst]

\* The client call ends with reply r; the handler and main() finish.
Finish(c, r) ==
    /\ pc' = [pc EXCEPT ![c] = "done"]
    /\ reply' = [reply EXCEPT ![c] = r]
    /\ result' = [result EXCEPT ![c] = main(descriptor[c], r)]
    /\ calls' = [calls EXCEPT ![c][request[c].op] = @ + 1]
    /\ UNCHANGED << descriptor, request, again, first >>

\* The store takes the request and answers by its rules.
RemoteServe(c) ==
    /\ pc[c] = "calling"
    /\ LET out == remote(store, request[c])
       IN  /\ store' = out.store
           /\ Finish(c, out.reply)
    /\ lastServedBy' = [lastServedBy EXCEPT ![descriptor[c].name] = c]

\* The store rejects the request (permission, throttling, ...).
RemoteFault(c, code) ==
    /\ pc[c] = "calling"
    /\ Finish(c, ClientError(code, TRUE))
    /\ UNCHANGED << store, lastServedBy >>

\* The client call raises something that is not a ClientError.
RemoteException(c) ==
    /\ pc[c] = "calling"
    /\ Finish(c, OtherException("BotoCoreError"))
    /\ UNCHANGED << store, lastServedBy >>

\* One caller running a task and running it again.
Next ==
    \/ \E d \in AllDescriptors : Invoke(1, d)
    \/ Rerun(1)
    \/ RemoteServe(1)
    \/ \E code \in FaultCodes : RemoteFault(1, code)
    \/ RemoteException(1)

Spec == Init /\ [][Next]_vars

\* The tasks several callers run against the same store.
ConcDescriptors ==
    { [name |-> n, value |-> "World"] : n \in Names }
    \cup { [name |-> n, value |-> "Moon", overwrite |-> FALSE] : n \in Names }
    \cup { [name |-> n, state |-> "absent"] : n \in Names }

ConcFaultCodes == {"ThrottlingException"}

\* Several callers, each running tasks one after the other.
NextConc ==
    \/ \E c \in Callers, d \in ConcDescriptors : Run(c, d)
    \/ \E c \in Callers : RemoteServe(c)
    \/ \E c \in Callers, code \in ConcFaultCodes : RemoteFault(c, code)
    \/ \E c \in Callers : RemoteException(c)

SpecConc == Init /\ [][NextConc]_vars

\* ------------------------------------------------------------- properties
Params(c)  == setup_module_object(descriptor[c])
Running(c) == pc[c] # "idle"
Done(c)    == pc[c] = "done"
Args(c)    == request[c].args
Present(c) == Running(c) /\ Params(c).state = "present"
AbsentRun(c) == Running(c) /\ Params(c).state = "absent"

\* C1: a state=present invocation calls put exactly once and delete never,
\* and the put request carries Name, Value, Type and Overwrite, equal to the
\* descriptor's name, value, string_type and overwrite.
C1_PutOnce ==
    \A c \in Callers : Present(c) =>
        /\ request[c].op = "put_parameter"
        /\ {"Name", "Value", "Type", "Overwrite"} \subseteq DOMAIN Args(c)
        /\ Args(c).Name = descriptor[c].name
        /\ Args(c).Value = descriptor[c].value
        /\ Args(c).Type = Params(c).string_type
        /\ Args(c).Overwrite = Params(c).overwrite
        /\ calls[c].delete_parameter = 0
        /\ calls[c].put_parameter <= 1
        /\ Done(c) => calls[c].put_parameter = 1

C1_Witness ==
    \E c \in Callers :
        /\ Done(c) /\ Present(c)
        /\ "overwrite" \in DOMAIN descriptor[c] /\ ~descriptor[c].overwrite
        /\ descriptor[c].string_type = "StringList"
        /\ calls[c] = [put_parameter |-> 1, delete_parameter |-> 0]

\* C2 as stated: Description is in the put request iff the descriptor
\* supplies a description, the empty string included, and equals it.
C2_Original ==
    \A c \in Callers : Present(c) =>
        /\ "Description" \in DOMAIN Args(c) <=> "description" \in DOMAIN descriptor[c]
        /\ "Description" \in DOMAIN Args(c) =>
                Args(c).Description = descriptor[c].description

\* C2 amended: Description is in the put request iff the descriptor supplies
\* a non-empty description, and then equals it; an empty description is
\* treated like none.
C2_DescriptionIffNonEmpty ==
    \A c \in Callers : Present(c) =>
        /\ "Description" \in DOMAIN Args(c) <=>
                ("description" \in DOMAIN descriptor[c] /\ descriptor[c].description # "")
        /\ "Description" \in DOMAIN Args(c) =>
                Args(c).Description = descriptor[c].description

C2_Witness ==
    \E c \in Callers :
        /\ Done(c) /\ Present(c)
        /\ "description" \in DOMAIN descriptor[c] /\ descriptor[c].description = ""
        /\ "Description" \notin DOMAIN Args(c)
        /\ result[c].kind = "exit_json"

\* C3: KeyId is in the put request iff string_type is SecureString; it then
\* equals the descriptor's key_id, "alias/aws/ssm" when none was given; for
\* String and StringList no key_id is sent or stored.
C3_KeyIdIffSecure ==
    \A c \in Callers : Present(c) =>
        /\ "KeyId" \in DOMAIN Args(c) <=> Params(c).string_type = "SecureString"
        /\ "KeyId" \in DOMAIN Args(c) =>
                Args(c).KeyId = Get(descriptor[c], "key_id", "alias/aws/ssm")
        /\ (Done(c) /\ reply[c].kind = "ok" /\ Params(c).string_type # "SecureString"
                /\ lastServedBy[descriptor[c].name] = c) =>
                "KeyId" \notin DOMAIN store[descriptor[c].name]

C3_Witness ==
    \E c \in Callers :
        /\ Done(c) /\ Present(c) /\ reply[c].kind = "ok"
        /\ Params(c).string_type = "SecureString"
        /\ "key_id" \notin DOMAIN descriptor[c]
        /\ Args(c).KeyId = "alias/aws/ssm"

\* C4: a state=absent invocation calls delete exactly once and put never,
\* and the delete request holds only Name, the descriptor's name, whatever
\* the other fields of the descriptor are.
C4_DeleteOnce ==
    \A c \in Callers : AbsentRun(c) =>
        /\ request[c].op = "delete_parameter"
        /\ DOMAIN Args(c) = {"Name"}
        /\ Args(c).Name = descriptor[c].name
        /\ calls[c].put_parameter = 0
        /\ calls[c].delete_parameter <= 1
        /\ Done(c) => calls[c].delete_parameter = 1

C4_Witness ==
    \E c \in Callers :
        /\ Done(c) /\ AbsentRun(c)
        /\ {"value", "description", "key_id"} \subseteq DOMAIN descriptor[c]
        /\ descriptor[c].string_type = "SecureString"
        /\ calls[c] = [put_parameter |-> 0, delete_parameter |-> 1]

\* C5: a state=absent invocation the store answers with ParameterNotFound
\* ends with changed=false and an empty response, never a failure; so the
\* second of two consecutive deletes of a name reports changed=false.
C5_IdempotentDelete ==
    \A c \in Callers : (Done(c) /\ AbsentRun(c)) =>
        /\ (reply[c].kind = "ClientError" /\ reply[c].error.Code = "ParameterNotFound")
                => result[c] = exit_json(FALSE, EmptyResponse)
        /\ (again[c] /\ first[c].result.kind = "exit_json" /\ ~reply[c].fault)
                => result[c] = exit_json(FALSE, EmptyResponse)

C5_Witness ==
    \E c \in Callers :
        /\ Done(c) /\ AbsentRun(c) /\ again[c]
        /\ first[c].result = exit_json(TRUE, DeletePayload)
        /\ result[c] = exit_json(FALSE, EmptyResponse)

\* C6: a remote error on put, or a remote error other than not-found on
\* delete, ends the invocation in a failure carrying that error and the label
\* of the operation; no changed/response result is reported and the one remote
\* call is not repeated.
C6_ErrorSurfacing ==
    \A c \in Callers :
        (/\ Done(c)
         /\ reply[c].kind = "ClientError"
         /\ ~(Params(c).state = "absent" /\ reply[c].error.Code = "ParameterNotFound"))
        =>
        /\ result[c].kind = "fail_json_aws"
        /\ result[c].exception = reply[c].error
        /\ result[c].msg = IF Params(c).state = "present"
                           THEN "setting parameter" ELSE "deleting parameter"
        /\ calls[c].put_parameter + calls[c].delete_parameter = 1

C6_Witness ==
    \E c \in Callers :
        /\ Done(c) /\ Present(c)
        /\ reply[c] = ClientError("ParameterAlreadyExists", FALSE)
        /\ result[c].kind = "fail_json_aws"

\* C7: when the remote call succeeds the invocation reports changed=true and
\* the payload the call returned, also for a put of the value already stored.
C7_SuccessChanged ==
    \A c \in Callers : (Done(c) /\ reply[c].kind = "ok") =>
        result[c] = exit_json(TRUE, reply[c].payload)

C7_Witness ==
    \E c \in Callers :
        /\ Done(c) /\ Present(c) /\ again[c]
        /\ first[c].result.kind = "exit_json"
        /\ first[c].store = store
        /\ result[c] = exit_json(TRUE, PutPayload)

\* C8: running a task twice in a row leaves the store as running it once
\* does, and the second run does not fail when the first succeeded (the store
\* answering both by its rules).
C8_Idempotent ==
    \A c \in Callers :
        (Done(c) /\ again[c] /\ ~first[c].fault /\ ~reply[c].fault) =>
            /\ store = first[c].store
            /\ first[c].result.kind = "exit_json" => result[c].kind = "exit_json"

\* C8 amended: running a task twice in a row leaves the store as running it
\* once does; the second run ends normally when the first did, except for
\* state=present with overwrite=false, where the first run created the name
\* and the second ends in the failure ParameterAlreadyExists.
C8_IdempotentUnlessNoOverwrite ==
    \A c \in Callers :
        (Done(c) /\ again[c] /\ ~first[c].fault /\ ~reply[c].fault) =>
            /\ store = first[c].store
            /\ first[c].result.kind = "exit_json" =>
                 IF Params(c).state = "present" /\ ~Params(c).overwrite
                 THEN result[c] = fail_json_aws([Code |-> "ParameterAlreadyExists"],
                                                "setting parameter")
                 ELSE result[c].kind = "exit_json"

C8_Witness ==
    \E c \in Callers :
        /\ Done(c) /\ again[c] /\ Present(c) /\ ~Params(c).overwrite
        /\ first[c].result = exit_json(TRUE, PutPayload)
        /\ result[c].kind = "fail_json_aws"
        /\ store = first[c].store

\* C9: invocations of several callers interleave safely.  An invocation
\* touches no name but its own and ends as it would with only its own name in
\* the store; a name holds what the invocation served last on it produced.
C9_IsolatedStep ==
    \A c \in Callers : (pc[c] = "calling" /\ pc'[c] = "done") =>
        LET n     == descriptor[c].name
            alone == [m \in Names |-> IF m = n THEN store[m] ELSE Absent]
        IN  /\ \A m \in Names \ {n} : store'[m] = store[m]
            /\ ~reply'[c].fault =>
                  /\ result'[c] = main(descriptor[c], remote(alone, request[c]).reply)
                  /\ store'[n] = remote(alone, request[c]).store[n]

C9_LastWriterWins ==
    \A c \in Callers :
        (/\ Done(c) /\ ~reply[c].fault
         /\ lastServedBy[descriptor[c].name] = c)
        =>
        LET n == descriptor[c].name
        IN  CASE result[c].kind = "fail_json_aws" -> store[n] # Absent
              [] Params(c).state = "absent"       -> store[n] = Absent
              [] OTHER -> store[n] = Stored(put_parameter_args(Params(c)))

C9_Concurrent == []C9_LastWriterWins /\ [][C9_IsolatedStep]_vars

C9_Witness ==
    \E c1, c2 \in Callers :
        /\ c1 # c2 /\ Done(c1) /\ Done(c2)
        /\ descriptor[c1].name = descriptor[c2].name
        /\ result[c1] = exit_json(TRUE, PutPayload)
        /\ result[c2] = exit_json(TRUE, PutPayload)
        /\ descriptor[c1].value # descriptor[c2].value
        /\ lastServedBy[descriptor[c1].name] = c1
        /\ store[descriptor[c1].name].Value = descriptor[c1].value

\* C10: two descriptors that differ only in decryption send the same request
\* and, given the same answer of the store, end in the same outcome.
DecryptionTwins(d) ==
    { ("decryption" :> b) @@ d : b \in BOOLEAN }
        \cup { [k \in DOMAIN d \ {"decryption"} |-> d[k]] }

C10_DecryptionUnused ==
    \A c \in Callers : Running(c) =>
        \A d2 \in DecryptionTwins(descriptor[c]) :
            /\ request[c] = main_request(d2)
            /\ Done(c) => result[c] = main(d2, reply[c])

C10_Witness ==
    \E c \in Callers :
        /\ Done(c)
        /\ "decryption" \in DOMAIN descriptor[c] /\ ~descriptor[c].decryption
        /\ descriptor[c].string_type = "SecureString"
        /\ result[c].kind = "exit_json"

====
